---- MODULE Spec2Model ----
(***************************************************************************)
(* A model of gmail-cli's credential lifecycle (src/src/gmail_cli/auth.py). *)
(*                                                                         *)
(* GmailAuthenticator.authenticate, get_service and revoke_credentials are *)
(* modelled statement by statement: every process has a position pc[p] in  *)
(* the method it is running, so that several CLI processes sharing one     *)
(* token file can interleave at the file-system calls.  The remote side     *)
(* (token refresh, the interactive flow, service construction, remote      *)
(* revocation) is a nondeterministic choice between success and failure.   *)
(***************************************************************************)
EXTENDS Integers, FiniteSets, Sequences, TLC

\* ------------------------------------------------------------------ bounds
\* The clock runs from 0 to MaxTime.
MaxTime == 2
\* An authenticator that runs alone is called at most MaxCalls times.
MaxCalls == 3
\* Each of two authenticators that share the token file is called at most
\* MaxSharedCalls times.
MaxSharedCalls == 1

\* ------------------------------------------------------------------ values
AllProcs == {1, 2}

\* Credentials.expiry is None: the credential never expires.
NoExpiry == 0 - 1

\* The local variable creds while it is None, and the fields of a file that
\* holds no credential.
NoCreds == [kind |-> "none", token |-> 0, expiry |-> NoExpiry, refresh |-> 0]

\* A Credentials object: access token (0: None), expiry, refresh token (0: None).
Cred(t, e, r) == [kind |-> "cred", token |-> t, expiry |-> e, refresh |-> r]

\* What the token file can hold: nothing (no file), text that is no
\* credential JSON, nothing yet (opened for writing, not yet written), or the
\* JSON of a credential.
AbsentFile == [kind |-> "absent", token |-> 0, expiry |-> NoExpiry, refresh |-> 0]
CorruptFile == [kind |-> "corrupt", token |-> 0, expiry |-> NoExpiry, refresh |-> 0]
EmptyFile == [kind |-> "empty", token |-> 0, expiry |-> NoExpiry, refresh |-> 0]

VARIABLES
    procs,        \* the CLI processes that run
    now,          \* the wall clock
    tokenFile,    \* content of self.token_file (shared by all processes)
    credsFile,    \* whether self.credentials_file exists
    issued,       \* tokens the authorization server has issued so far
    pc,           \* pc[p]: position of process p
    op,           \* op[p]: the method the caller of p invoked
    creds,        \* creds[p]: the local variable creds of authenticate()
    service,      \* service[p]: self.service (0: None, n: the n-th built handle)
    built,        \* built[p]: service handles built so far by p
    budget,       \* budget[p]: method calls p may still start
    result,       \* result[p]: outcome of the call ("none" while running)
    ret,          \* ret[p]: the handle get_service() returned
    h,            \* h[p]: history of the running call (what it saw and did)
    codec,        \* the message being decoded or composed, and the result
    client,       \* the GmailClient operation that runs, and its outcome
    cli           \* the CLI command that runs, and its exit status

\* The state of the authenticators and of their files.
authVars == <<procs, now, tokenFile, credsFile, issued, pc, op, creds,
              service, built, budget, result, ret, h>>

\* The state of the mail client and of the command line.
mailVars == <<codec, client, cli>>

vars == <<authVars, mailVars>>

\* The history of one call: the state it started from and what it did.
NoHistory ==
    [file0 |-> AbsentFile, service0 |-> 0, loaded |-> NoCreds, seen |-> "none",
     checkedAt |-> 0, nAuth |-> 0, nRefresh |-> 0, nFlow |-> 0, nWrites |-> 0,
     nRevoke |-> 0, refreshed |-> "none", rotated |-> FALSE, flow |-> "none",
     loadRaised |-> FALSE, authResult |-> "none", build |-> "none",
     revokeRemote |-> "none", removed |-> FALSE, last |-> FALSE]

\* ------------------------------------------------- google.oauth2 Credentials
\* Credentials.expired: an expiry is set and the clock has reached it.
Expired(c, t) == c.expiry # NoExpiry /\ t >= c.expiry

\* Credentials.valid: there is an access token and it is not expired.
Valid(c, t) == c.token # 0 /\ ~Expired(c, t)

\* Credentials.to_json(): the JSON text written to the token file.
ToJson(c) == [kind |-> "cred", token |-> c.token, expiry |-> c.expiry,
              refresh |-> c.refresh]

\* Credentials.from_authorized_user_file(): the credential a file holds.
FromJson(f) == Cred(f.token, f.expiry, f.refresh)

\* os.path.exists(self.token_file)
Exists(f) == f.kind # "absent"

\* Whether the file's text parses as a credential.
Parses(f) == f.kind = "cred"

\* ------------------------------------------------------------ the callers
\* get_service() without its raise: it returns self.service whenever
\* authenticate() returned.
GetServiceNeverRaises(r) == IF r = "raised" THEN "raised" ELSE "service"

\* What get_service() makes of authenticate()'s outcome: the handle when it
\* returned True, an exception otherwise.
GetServiceResult(r) == IF r = "True" THEN "service" ELSE "raised"

\* The outcome of the running call of p when its authenticate() ends with r.
Outcome(p, r) == IF op[p] = "get_service" THEN GetServiceResult(r) ELSE r

\* The state a call starts from.
CallHistory(p) == [NoHistory EXCEPT !.file0 = tokenFile, !.service0 = service[p]]

\* A caller invokes authenticate().
StartAuthenticate(p) ==
    /\ pc[p] = "idle"
    /\ budget[p] > 0
    /\ budget' = [budget EXCEPT ![p] = @ - 1]
    /\ op' = [op EXCEPT ![p] = "authenticate"]
    /\ pc' = [pc EXCEPT ![p] = "auth_exists"]
    /\ creds' = [creds EXCEPT ![p] = NoCreds]
    /\ h' = [h EXCEPT ![p] = [CallHistory(p) EXCEPT !.nAuth = 1]]
    /\ UNCHANGED <<mailVars, procs, now, tokenFile, credsFile, issued, service, built,
                   result, ret>>

\* get_service(): with self.service set it returns it at once; otherwise it
\* enters authenticate() and decides when that ends.
GetService(p) ==
    /\ pc[p] = "idle"
    /\ budget[p] > 0
    /\ budget' = [budget EXCEPT ![p] = @ - 1]
    /\ op' = [op EXCEPT ![p] = "get_service"]
    /\ creds' = [creds EXCEPT ![p] = NoCreds]
    /\ IF service[p] # 0
       THEN /\ pc' = [pc EXCEPT ![p] = "done"]
            /\ result' = [result EXCEPT ![p] = "service"]
            /\ ret' = [ret EXCEPT ![p] = service[p]]
            /\ h' = [h EXCEPT ![p] = CallHistory(p)]
       ELSE /\ pc' = [pc EXCEPT ![p] = "auth_exists"]
            /\ h' = [h EXCEPT ![p] = [CallHistory(p) EXCEPT !.nAuth = 1]]
            /\ UNCHANGED <<result, ret>>
    /\ UNCHANGED <<mailVars, procs, now, tokenFile, credsFile, issued, service, built>>

\* The call has returned (or raised) and the caller goes on.
Return(p) ==
    /\ pc[p] = "done"
    /\ pc' = [pc EXCEPT ![p] = "idle"]
    /\ op' = [op EXCEPT ![p] = "none"]
    /\ result' = [result EXCEPT ![p] = "none"]
    /\ ret' = [ret EXCEPT ![p] = 0]
    /\ creds' = [creds EXCEPT ![p] = NoCreds]
    /\ h' = [h EXCEPT ![p] = NoHistory]
    /\ UNCHANGED <<mailVars, procs, now, tokenFile, credsFile, issued, service, built,
                   budget>>

\* Time passes.
Tick ==
    /\ now < MaxTime
    /\ now' = now + 1
    /\ UNCHANGED <<mailVars, procs, tokenFile, credsFile, issued, pc, op, creds, service,
                   built, budget, result, ret, h>>

\* ------------------------------------------------------------ authenticate
\* authenticate() ends with r (True, False, or an exception) and no handle.
AuthEnds(p, r) ==
    /\ pc' = [pc EXCEPT ![p] = "done"]
    /\ result' = [result EXCEPT ![p] = Outcome(p, r)]
    /\ UNCHANGED ret

\* if os.path.exists(self.token_file):
AuthExists(p) ==
    /\ pc[p] = "auth_exists"
    /\ pc' = [pc EXCEPT ![p] = IF Exists(tokenFile) THEN "auth_read"
                                                    ELSE "auth_check"]
    /\ h' = [h EXCEPT ![p].seen = IF Exists(tokenFile) THEN @ ELSE "absent"]
    /\ UNCHANGED <<mailVars, procs, now, tokenFile, credsFile, issued, op, creds,
                   service, built, budget, result, ret>>

\* creds = Credentials.from_authorized_user_file(self.token_file, SCOPES):
\* it raises when the file is gone or its text is no credential JSON.
AuthRead(p) ==
    /\ pc[p] = "auth_read"
    /\ IF Parses(tokenFile)
       THEN /\ creds' = [creds EXCEPT ![p] = FromJson(tokenFile)]
            /\ h' = [h EXCEPT ![p].seen = tokenFile.kind,
                              ![p].loaded = FromJson(tokenFile)]
            /\ pc' = [pc EXCEPT ![p] = "auth_check"]
            /\ UNCHANGED <<result, ret>>
       ELSE /\ h' = [h EXCEPT ![p].seen = tokenFile.kind,
                              ![p].loadRaised = TRUE,
                              ![p].authResult = "raised"]
            /\ AuthEnds(p, "raised")
            /\ UNCHANGED creds
    /\ UNCHANGED <<mailVars, procs, now, tokenFile, credsFile, issued, op, service,
                   built, budget>>

\* The test with its second "not" dropped: if not creds or creds.valid:
NeedsLoginOfValid(c, t) == c.kind = "none" \/ Valid(c, t)

\* if not creds or not creds.valid:
NeedsLogin(c, t) == c.kind = "none" \/ ~Valid(c, t)

\* if creds and creds.expired and creds.refresh_token:
CanRefresh(c, t) == c.kind = "cred" /\ Expired(c, t) /\ c.refresh # 0

\* The branch taken without the test that the credentials file exists.
BranchWithoutSecretTest(c, t, secret) ==
    IF ~NeedsLogin(c, t) THEN "auth_build"
    ELSE IF CanRefresh(c, t) THEN "auth_refresh"
    ELSE "auth_flow"

\* The branch authenticate() takes once the token file has been read.
Branch(c, t, secret) ==
    IF ~NeedsLogin(c, t) THEN "auth_build"
    ELSE IF CanRefresh(c, t) THEN "auth_refresh"
    ELSE IF ~secret THEN "return_false"
    ELSE "auth_flow"

AuthCheck(p) ==
    /\ pc[p] = "auth_check"
    /\ LET b == Branch(creds[p], now, credsFile) IN
       IF b = "return_false"
       THEN /\ AuthEnds(p, "False")
            /\ h' = [h EXCEPT ![p].checkedAt = now, ![p].authResult = "False"]
       ELSE /\ pc' = [pc EXCEPT ![p] = b]
            /\ h' = [h EXCEPT ![p].checkedAt = now]
            /\ UNCHANGED <<result, ret>>
    /\ UNCHANGED <<mailVars, procs, now, tokenFile, credsFile, issued, op, creds,
                   service, built, budget>>

\* creds.refresh(Request()): the server answers with a new access token and
\* expiry, and with a new refresh token when it rotates it; or the call raises
\* (network error, revoked refresh token).
Refreshed(c, t, n, rotate) ==
    [c EXCEPT !.token = n + 1, !.expiry = t + 1,
              !.refresh = IF rotate THEN n + 2 ELSE @]

\* The refresh with the save nested in the else branch: a refreshed credential
\* goes straight to build().
AuthRefreshUnsaved(p) ==
    /\ pc[p] = "auth_refresh"
    /\ \/ \E rotate \in BOOLEAN :
            /\ creds' = [creds EXCEPT ![p] = Refreshed(@, now, issued, rotate)]
            /\ issued' = issued + (IF rotate THEN 2 ELSE 1)
            /\ h' = [h EXCEPT ![p].nRefresh = @ + 1, ![p].refreshed = "ok",
                              ![p].rotated = rotate]
            /\ pc' = [pc EXCEPT ![p] = "auth_build"]
            /\ UNCHANGED <<result, ret>>
       \/ /\ h' = [h EXCEPT ![p].nRefresh = @ + 1, ![p].refreshed = "failed",
                            ![p].authResult = "raised"]
          /\ AuthEnds(p, "raised")
          /\ UNCHANGED <<creds, issued>>
    /\ UNCHANGED <<mailVars, procs, now, tokenFile, credsFile, op, service, built, budget>>

AuthRefresh(p) ==
    /\ pc[p] = "auth_refresh"
    /\ \/ \E rotate \in BOOLEAN :
            /\ creds' = [creds EXCEPT ![p] = Refreshed(@, now, issued, rotate)]
            /\ issued' = issued + (IF rotate THEN 2 ELSE 1)
            /\ h' = [h EXCEPT ![p].nRefresh = @ + 1, ![p].refreshed = "ok",
                              ![p].rotated = rotate]
            /\ pc' = [pc EXCEPT ![p] = "auth_open"]
            /\ UNCHANGED <<result, ret>>
       \/ /\ h' = [h EXCEPT ![p].nRefresh = @ + 1, ![p].refreshed = "failed",
                            ![p].authResult = "raised"]
          /\ AuthEnds(p, "raised")
          /\ UNCHANGED <<creds, issued>>
    /\ UNCHANGED <<mailVars, procs, now, tokenFile, credsFile, op, service, built, budget>>

\* flow = InstalledAppFlow.from_client_secrets_file(...);
\* creds = flow.run_local_server(port=0): a new credential, or the call raises
\* (the user cancels, the grant exchange fails).
AuthFlow(p) ==
    /\ pc[p] = "auth_flow"
    /\ \/ /\ creds' = [creds EXCEPT ![p] = Cred(issued + 1, now + 1, issued + 2)]
          /\ issued' = issued + 2
          /\ h' = [h EXCEPT ![p].nFlow = @ + 1, ![p].flow = "ok"]
          /\ pc' = [pc EXCEPT ![p] = "auth_open"]
          /\ UNCHANGED <<result, ret>>
       \/ /\ h' = [h EXCEPT ![p].nFlow = @ + 1, ![p].flow = "failed",
                            ![p].authResult = "raised"]
          /\ AuthEnds(p, "raised")
          /\ UNCHANGED <<creds, issued>>
    /\ UNCHANGED <<mailVars, procs, now, tokenFile, credsFile, op, service, built, budget>>

\* with open(self.token_file, 'w') as token: the file is created or truncated.
AuthOpen(p) ==
    /\ pc[p] = "auth_open"
    /\ tokenFile' = EmptyFile
    /\ pc' = [pc EXCEPT ![p] = "auth_write"]
    /\ UNCHANGED <<mailVars, procs, now, credsFile, issued, op, creds, service, built,
                   budget, result, ret, h>>

\* The text in the file after `text` has been written at offset 0 of a file
\* that holds `old`.  The file was truncated when it was opened, so it is
\* empty unless another process has written to it since: then the new text
\* replaces the old one when it is at least as long (fits), and leaves the old
\* text's tail behind it when it is shorter.
Overwritten(old, text, fits) ==
    IF old.kind = "cred" /\ ~fits THEN CorruptFile ELSE text

\* token.write(creds.to_json()), flushed when the with block closes the file.
\* The process that wrote last is marked in the history.
AuthWrite(p) ==
    /\ pc[p] = "auth_write"
    /\ \E fits \in BOOLEAN :
           tokenFile' = Overwritten(tokenFile, ToJson(creds[p]), fits)
    /\ h' = [q \in AllProcs |->
               IF q = p THEN [h[q] EXCEPT !.nWrites = @ + 1, !.last = TRUE]
                        ELSE [h[q] EXCEPT !.last = FALSE]]
    /\ pc' = [pc EXCEPT ![p] = "auth_build"]
    /\ UNCHANGED <<mailVars, procs, now, credsFile, issued, op, creds, service, built,
                   budget, result, ret>>

\* try: self.service = build('gmail', 'v1', credentials=creds); return True
\* except Exception: return False
AuthBuild(p) ==
    /\ pc[p] = "auth_build"
    /\ pc' = [pc EXCEPT ![p] = "done"]
    /\ \/ /\ built' = [built EXCEPT ![p] = @ + 1]
          /\ service' = [service EXCEPT ![p] = built[p] + 1]
          /\ result' = [result EXCEPT ![p] = Outcome(p, "True")]
          /\ ret' = [ret EXCEPT ![p] = IF op[p] = "get_service"
                                       THEN built[p] + 1 ELSE @]
          /\ h' = [h EXCEPT ![p].build = "ok", ![p].authResult = "True"]
       \/ /\ result' = [result EXCEPT ![p] = Outcome(p, "False")]
          /\ h' = [h EXCEPT ![p].build = "failed", ![p].authResult = "False"]
          /\ UNCHANGED <<built, service, ret>>
    /\ UNCHANGED <<mailVars, procs, now, tokenFile, credsFile, issued, op, creds, budget>>

\* ------------------------------------------------------- revoke_credentials
\* revoke_credentials() ends with r (True or False; its except clause turns
\* every exception into False).
RevokeEnds(p, r) ==
    /\ pc' = [pc EXCEPT ![p] = "done"]
    /\ result' = [result EXCEPT ![p] = r]

StartRevoke(p) ==
    /\ pc[p] = "idle"
    /\ budget[p] > 0
    /\ budget' = [budget EXCEPT ![p] = @ - 1]
    /\ op' = [op EXCEPT ![p] = "revoke"]
    /\ pc' = [pc EXCEPT ![p] = "rev_exists"]
    /\ h' = [h EXCEPT ![p] = CallHistory(p)]
    /\ UNCHANGED <<mailVars, procs, now, tokenFile, credsFile, issued, creds, service,
                   built, result, ret>>

\* The missing file reported as success (nothing left to revoke).
RevExistsIdempotent(p) ==
    /\ pc[p] = "rev_exists"
    /\ IF Exists(tokenFile)
       THEN /\ pc' = [pc EXCEPT ![p] = "rev_read"]
            /\ UNCHANGED <<result, h>>
       ELSE /\ RevokeEnds(p, "True")
            /\ h' = [h EXCEPT ![p].seen = "absent"]
    /\ UNCHANGED <<mailVars, procs, now, tokenFile, credsFile, issued, op, creds,
                   service, built, budget, ret>>

\* if os.path.exists(self.token_file): ... ; otherwise the final return False
RevExists(p) ==
    /\ pc[p] = "rev_exists"
    /\ IF Exists(tokenFile)
       THEN /\ pc' = [pc EXCEPT ![p] = "rev_read"]
            /\ UNCHANGED <<result, h>>
       ELSE /\ RevokeEnds(p, "False")
            /\ h' = [h EXCEPT ![p].seen = "absent"]
    /\ UNCHANGED <<mailVars, procs, now, tokenFile, credsFile, issued, op, creds,
                   service, built, budget, ret>>

\* creds_data = json.load(token);
\* creds = Credentials.from_authorized_user_info(creds_data, SCOPES)
RevRead(p) ==
    /\ pc[p] = "rev_read"
    /\ IF Parses(tokenFile)
       THEN /\ creds' = [creds EXCEPT ![p] = FromJson(tokenFile)]
            /\ pc' = [pc EXCEPT ![p] = "rev_remote"]
            /\ UNCHANGED result
       ELSE /\ RevokeEnds(p, "False")
            /\ UNCHANGED creds
    /\ h' = [h EXCEPT ![p].seen = tokenFile.kind]
    /\ UNCHANGED <<mailVars, procs, now, tokenFile, credsFile, issued, op, service,
                   built, budget, ret>>

\* creds.revoke(Request()): the remote revocation, which may raise.
RevRemote(p) ==
    /\ pc[p] = "rev_remote"
    /\ \/ /\ pc' = [pc EXCEPT ![p] = "rev_remove"]
          /\ h' = [h EXCEPT ![p].nRevoke = @ + 1, ![p].revokeRemote = "ok"]
          /\ UNCHANGED result
       \/ /\ RevokeEnds(p, "False")
          /\ h' = [h EXCEPT ![p].nRevoke = @ + 1, ![p].revokeRemote = "failed"]
    /\ UNCHANGED <<mailVars, procs, now, tokenFile, credsFile, issued, op, creds,
                   service, built, budget, ret>>

\* The mutant of RevRemove: the service handle is dropped with the file.
RevRemoveDropsService(p) ==
    /\ pc[p] = "rev_remove"
    /\ IF Exists(tokenFile)
       THEN /\ tokenFile' = AbsentFile
            /\ service' = [service EXCEPT ![p] = 0]
            /\ RevokeEnds(p, "True")
            /\ h' = [h EXCEPT ![p].removed = TRUE]
       ELSE /\ RevokeEnds(p, "False")
            /\ UNCHANGED <<tokenFile, h, service>>
    /\ UNCHANGED <<mailVars, procs, now, credsFile, issued, op, creds, built,
                   budget, ret>>

\* os.remove(self.token_file); return True.  os.remove raises when the file
\* is gone.
RevRemove(p) ==
    /\ pc[p] = "rev_remove"
    /\ IF Exists(tokenFile)
       THEN /\ tokenFile' = AbsentFile
            /\ RevokeEnds(p, "True")
            /\ h' = [h EXCEPT ![p].removed = TRUE]
       ELSE /\ RevokeEnds(p, "False")
            /\ UNCHANGED <<tokenFile, h>>
    /\ UNCHANGED <<mailVars, procs, now, credsFile, issued, op, creds, service, built,
                   budget, ret>>

\* ------------------------------------------------------------ specification
\* The token files a run may find: none, one that is no credential JSON, or a
\* credential with or without access token, expiry and refresh token.
InitFiles ==
    {AbsentFile, CorruptFile}
    \cup {ToJson(Cred(t, e, r)) : t \in {0, 1}, e \in {NoExpiry} \cup 1..MaxTime,
                                  r \in {0, 1}}

\* A Python value that is a str (val its characters) or None.
Str(t) == [type |-> "str", val |-> t]
None == [type |-> "NoneType", val |-> <<>>]

\* No composition request, no MIME message, no message payload, no content.
NoRequest == [to |-> "", subject |-> "", cc |-> "", bcc |-> "", body |-> <<>>,
              paths |-> <<>>]
NoMessage == [built |-> FALSE, headers |-> <<>>, parts |-> <<>>]
NoPayload == [multi |-> FALSE, mimeType |-> "", data |-> <<>>, filename |-> "",
              headers |-> <<>>, parts |-> <<>>]
NoContent == [kind |-> "none", subject |-> "", from |-> "", to |-> "",
              date |-> "", body |-> Str(<<>>), attachments |-> <<>>,
              src |-> <<>>]

\* No message is decoded or composed.  A run of the codec is at position pc;
\* req is the composition request, msg the MIME message built from it, remote
\* how the remote call ended, ret what the operation returned, payload the
\* payload of the message resource to decode and out what
\* get_message_content gave.
NoCodec == [op |-> "none", pc |-> "idle", req |-> NoRequest, msg |-> NoMessage,
            remote |-> "none", ret |-> "none", payload |-> NoPayload,
            out |-> NoContent]

\* The local files an attachment is saved to, and a file that does not exist.
LocalFiles == {"out.bin", "attachment_att1"}
NoFile == [exists |-> FALSE, bytes |-> <<>>]

\* No arguments, no request, no response.
NoArgs == [query |-> "", max_results |-> 0, label_ids |-> "none",
           filename |-> "", attachment_id |-> ""]
NoRemoteRequest == [q |-> "", maxResults |-> 0, labelIds |-> "none"]
NoResponse == [present |-> FALSE, items |-> <<>>, data |-> <<>>]

\* No client operation runs.  An invocation is at position pc; args are its
\* arguments, request what it sends, built tells that its request was built,
\* nRemote counts the remote calls it issued, remote is how the call ended,
\* response what it gave, ret the value returned and raised whether an
\* exception left the operation; files are the local files, files0 what they
\* were before the invocation.
NoClient == [op |-> "none", pc |-> "idle", args |-> NoArgs,
             request |-> NoRemoteRequest, built |-> FALSE, nRemote |-> 0,
             remote |-> "none", response |-> NoResponse, ret |-> None,
             raised |-> FALSE,
             files |-> [f \in LocalFiles |-> NoFile],
             files0 |-> [f \in LocalFiles |-> NoFile]]

\* No command runs.  A command is at position pc; confirm tells that
\* --confirm was given, answer what the user answered when asked about the
\* deletion, nAuth how often authenticate() was called, auth is what
\* authenticate() gave, stubs the messages it still has to show, rows the
\* rows of its table, failed the failures it met, nRemote the remote calls it
\* issued, said what it printed last and exit its exit status once it has
\* exited.
NoCli == [op |-> "none", pc |-> "idle", confirm |-> FALSE, answer |-> "none",
          nAuth |-> 0, auth |-> "none", stubs |-> 0, rows |-> 0,
          failed |-> {}, nRemote |-> 0, said |-> "none", exit |-> 0]

InitMail ==
    /\ codec = NoCodec
    /\ client = NoClient
    /\ cli = NoCli

\* The authenticators before any call; each may start n calls.
InitAuth(n) ==
    /\ now = 0
    /\ credsFile \in BOOLEAN
    /\ issued = 1
    /\ pc = [p \in AllProcs |-> "idle"]
    /\ op = [p \in AllProcs |-> "none"]
    /\ creds = [p \in AllProcs |-> NoCreds]
    /\ service = [p \in AllProcs |-> 0]
    /\ built = [p \in AllProcs |-> 0]
    /\ budget = [p \in AllProcs |-> n]
    /\ result = [p \in AllProcs |-> "none"]
    /\ ret = [p \in AllProcs |-> 0]
    /\ h = [p \in AllProcs |-> NoHistory]

InitLocal(n) ==
    /\ InitMail
    /\ InitAuth(n)

\* One authenticator in one CLI process.
Init ==
    /\ procs = {1}
    /\ tokenFile \in InitFiles
    /\ InitLocal(MaxCalls)

Next ==
    \/ Tick
    \/ \E p \in procs : StartAuthenticate(p)
    \/ \E p \in procs : GetService(p)
    \/ \E p \in procs : StartRevoke(p)
    \/ \E p \in procs : Return(p)
    \/ \E p \in procs : AuthExists(p)
    \/ \E p \in procs : AuthRead(p)
    \/ \E p \in procs : AuthCheck(p)
    \/ \E p \in procs : AuthRefresh(p)
    \/ \E p \in procs : AuthFlow(p)
    \/ \E p \in procs : AuthOpen(p)
    \/ \E p \in procs : AuthWrite(p)
    \/ \E p \in procs : AuthBuild(p)
    \/ \E p \in procs : RevExists(p)
    \/ \E p \in procs : RevRead(p)
    \/ \E p \in procs : RevRemote(p)
    \/ \E p \in procs : RevRemove(p)

Spec == Init /\ [][Next]_vars

\* Two CLI processes that share the token file, which holds a credential.
InitShared ==
    /\ procs = AllProcs
    /\ tokenFile \in {ToJson(Cred(1, e, 1)) : e \in {1, MaxTime}}
    /\ InitLocal(MaxSharedCalls)

SpecShared == InitShared /\ [][Next]_vars

\* ------------------------------------------------------------------ claims
\* The call of method m by p has ended.
Done(p, m) == p \in procs /\ pc[p] = "done" /\ op[p] = m

\* The credential c read from the token file is valid at time t: it has an
\* access token, and no expiry or one in the future.
CurrentlyValid(c, t) ==
    c.kind = "cred" /\ c.token # 0 /\ (c.expiry = NoExpiry \/ c.expiry > t)

\* The credential c read from the token file is expired at time t and has a
\* refresh token.
Refreshable(c, t) ==
    c.kind = "cred" /\ c.expiry # NoExpiry /\ c.expiry <= t /\ c.refresh # 0

\* authenticate() of p read a valid credential from the token file.
ReadValid(p) ==
    /\ Done(p, "authenticate")
    /\ h[p].seen = "cred"
    /\ CurrentlyValid(h[p].loaded, h[p].checkedAt)

\* What authenticate() returns once it has a credential: True when build()
\* gave a service, False when build() raised.
BuildResult(p) == IF h[p].build = "ok" THEN "True" ELSE "False"

\* C1 as stated: whenever the token file holds a currently valid credential,
\* authenticate() makes no refresh call, runs no interactive flow, does not
\* rewrite the token file, and returns success.
C1_ShortCircuitSucceeds ==
    \A p \in procs : ReadValid(p) =>
        /\ h[p].nRefresh = 0 /\ h[p].nFlow = 0 /\ h[p].nWrites = 0
        /\ tokenFile = h[p].file0
        /\ result[p] = "True"

\* C1 as amended: whenever the token file holds a currently valid credential,
\* authenticate() makes no refresh call, runs no interactive flow and does not
\* rewrite the token file; it returns success when the service is built and
\* failure when building the service raises.
C1_ShortCircuit ==
    \A p \in procs : ReadValid(p) =>
        /\ h[p].nRefresh = 0 /\ h[p].nFlow = 0 /\ h[p].nWrites = 0
        /\ tokenFile = h[p].file0
        /\ h[p].build # "none"
        /\ result[p] = BuildResult(p)
        /\ (result[p] = "True" => service[p] # 0)

C1_Witness == \E p \in procs : ReadValid(p) /\ result[p] = "True"

\* C2: when the token file's credential is expired and refreshable and the
\* refresh call fails, authenticate() goes on to the interactive flow (the
\* credentials file being there) instead of ending on the failed refresh.
C2_RefreshFailureFallsThrough ==
    \A p \in procs :
        (h[p].refreshed = "failed" /\ credsFile /\ pc[p] = "done")
            => h[p].nFlow = 1

\* C3: for every credential in the token file, once revoke_credentials() has
\* returned the token file is gone, whether the remote revocation succeeded
\* or failed, and the remote revocation was attempted before the deletion.
C3_RevokeRemovesFile ==
    \A p \in procs : (Done(p, "revoke") /\ h[p].file0.kind = "cred") =>
        /\ tokenFile.kind = "absent"
        /\ h[p].nRevoke = 1

\* authenticate() of p refreshed an expired credential that had a refresh token.
RefreshedOk(p) ==
    /\ Done(p, "authenticate")
    /\ h[p].seen = "cred"
    /\ Refreshable(h[p].loaded, h[p].checkedAt)
    /\ h[p].refreshed = "ok"

\* The token file holds the refreshed credential of p: a new access token, an
\* expiry after the old one and after the time of the call, and the refresh
\* token it had unless the server rotated it.
HoldsRefreshed(p) ==
    /\ tokenFile.kind = "cred"
    /\ tokenFile.token # 0
    /\ tokenFile.token # h[p].loaded.token
    /\ tokenFile.expiry # NoExpiry
    /\ tokenFile.expiry > h[p].loaded.expiry
    /\ tokenFile.expiry > h[p].checkedAt
    /\ (~h[p].rotated => tokenFile.refresh = h[p].loaded.refresh)
    /\ (h[p].rotated => tokenFile.refresh \notin {0, h[p].loaded.refresh})

\* C4 as stated: after a successful refresh of an expired credential the token
\* file holds the new access token and expiry with the same refresh token
\* (unless rotated), and authenticate() reports success without running the
\* interactive flow.
C4_RefreshThenPersistSucceeds ==
    \A p \in procs : RefreshedOk(p) =>
        /\ HoldsRefreshed(p)
        /\ h[p].nFlow = 0
        /\ result[p] = "True"

\* C4 as amended: after a successful refresh of an expired credential the
\* token file holds the new access token and expiry with the same refresh
\* token (unless rotated) and the interactive flow did not run;
\* authenticate() reports success when the service is built and failure when
\* building the service raises.
C4_RefreshThenPersist ==
    \A p \in procs : RefreshedOk(p) =>
        /\ HoldsRefreshed(p)
        /\ h[p].nWrites = 1
        /\ h[p].nFlow = 0
        /\ h[p].build # "none"
        /\ result[p] = BuildResult(p)

C4_Witness ==
    \E p \in procs : RefreshedOk(p) /\ ~h[p].rotated /\ result[p] = "True"

\* C5: loading the token file never raises: when the file is missing or does
\* not parse, authenticate() goes on with no credential to the interactive
\* branch.
C5_LoadNeverRaises ==
    \A p \in procs :
        (op[p] = "authenticate" /\ h[p].seen \in {"absent", "corrupt"}) =>
            /\ ~h[p].loadRaised
            /\ result[p] # "raised" \/ h[p].nFlow = 1

\* authenticate() of p found no valid and no refreshable credential.
NothingUsable(p) ==
    /\ Done(p, "authenticate")
    /\ ~h[p].loadRaised
    /\ h[p].seen \in {"absent", "cred"}
    /\ ~CurrentlyValid(h[p].loaded, h[p].checkedAt)
    /\ ~Refreshable(h[p].loaded, h[p].checkedAt)

C7_FlowFailureReturnsFailure ==
    \A p \in procs : (Done(p, "authenticate") /\ h[p].flow = "failed") =>
        /\ result[p] = "False"
        /\ h[p].nWrites = 0 /\ tokenFile = h[p].file0
        /\ service[p] = h[p].service0

\* C8: get_service() with a service from an earlier authenticate() returns
\* that handle and runs no authenticate(), refresh or flow; with none it runs
\* authenticate() once, raises when that does not succeed, and never returns
\* an unset handle.
C8_GetService ==
    \A p \in procs :
        /\ op[p] = "get_service" => h[p].nAuth <= 1
        /\ Done(p, "get_service") =>
            /\ h[p].service0 # 0 =>
                /\ result[p] = "service" /\ ret[p] = h[p].service0
                /\ service[p] = h[p].service0
                /\ h[p].nAuth = 0 /\ h[p].nRefresh = 0 /\ h[p].nFlow = 0
            /\ h[p].service0 = 0 =>
                /\ h[p].nAuth = 1
                /\ h[p].authResult \in {"True", "False", "raised"}
                /\ h[p].authResult = "True" =>
                       result[p] = "service" /\ ret[p] = service[p]
                /\ h[p].authResult # "True" => result[p] = "raised"
            /\ result[p] = "service" => ret[p] # 0

C8_Witness ==
    \E p \in procs :
        /\ Done(p, "get_service") /\ h[p].service0 # 0
        /\ result[p] = "service" /\ ret[p] = h[p].service0

\* C9: with no token file, revoke_credentials() reports failure, makes no
\* remote revocation call and changes nothing locally.
C9_RevokeNothing ==
    \A p \in procs : (Done(p, "revoke") /\ h[p].file0.kind = "absent") =>
        /\ result[p] = "False"
        /\ h[p].nRevoke = 0 /\ ~h[p].removed
        /\ tokenFile = h[p].file0
        /\ service[p] = h[p].service0

C9_Witness ==
    \E p \in procs :
        Done(p, "revoke") /\ h[p].file0.kind = "absent" /\ result[p] = "False"

\* C10: while one process saves the credential, every other process that
\* reads the token file sees a complete credential, the old one or the new
\* one, never an empty or partly written file.
C10_ReadersSeeFullContent ==
    \A p \in procs : h[p].seen \in {"none", "absent", "cred"}

\* Both processes have run authenticate() on the credential the file held at
\* first, each got a new credential and saved it, and both have returned.
BothSaved ==
    /\ procs = AllProcs
    /\ \A p \in procs :
        /\ Done(p, "authenticate")
        /\ h[p].seen = "cred" /\ h[p].loaded = FromJson(h[p].file0)
        /\ h[p].nWrites = 1
    /\ \A p, q \in procs : h[p].loaded = h[q].loaded

\* C11: when two processes run authenticate() on the same expired credential
\* and both obtain a new one, neither fails because of the other, and once
\* both have finished the token file holds the full credential of the process
\* that saved last.
C11_LastWriteWins ==
    BothSaved =>
        /\ \A p \in procs : result[p] = BuildResult(p)
        /\ \E p \in procs : h[p].last /\ tokenFile = ToJson(creds[p])

\* C27: revoke_credentials() leaves the service handle as it is: no step of
\* it changes self.service, and a get_service() called with a handle built
\* earlier returns that handle without authenticating, also when the token
\* file is gone.
C27_RevokeKeepsService ==
    [][\A p \in procs :
          /\ op'[p] = "revoke" => service'[p] = service[p]
          /\ (Done(p, "get_service")' /\ h'[p].service0 # 0
                /\ tokenFile' = AbsentFile) =>
                /\ result'[p] = "service"
                /\ ret'[p] = h'[p].service0
                /\ service'[p] = h'[p].service0
                /\ h'[p].nAuth = 0]_vars

\* get_service() returned the handle built before the token file was removed.
C27_Witness ==
    \E p \in procs :
        /\ Done(p, "get_service")
        /\ h[p].service0 # 0
        /\ tokenFile = AbsentFile
        /\ result[p] = "service"
        /\ ret[p] = h[p].service0

\* authenticate() of p obtained a credential by refresh or by the flow, and
\* building the service failed.
BuildFailedAfterLogin(p) ==
    /\ Done(p, "authenticate")
    /\ h[p].refreshed = "ok" \/ h[p].flow = "ok"
    /\ h[p].build = "failed"

\* C28 as stated: a credential obtained by refresh or by the flow is written
\* to the token file before the service is built, so when building the
\* service fails authenticate() returns failure with the service handle
\* unset while the token file holds the new credential.
C28_PersistBeforeBuildUnset ==
    \A p \in procs : BuildFailedAfterLogin(p) =>
        /\ result[p] = "False"
        /\ service[p] = 0
        /\ h[p].nWrites = 1
        /\ tokenFile = ToJson(creds[p])

\* C28 as amended: a credential obtained by refresh or by the flow is written
\* to the token file before the service is built, so when building the
\* service fails authenticate() returns failure with the service handle as
\* it was before the call (unset unless an earlier call built one) while the
\* token file holds the new credential.
C28_PersistBeforeBuild ==
    \A p \in procs : BuildFailedAfterLogin(p) =>
        /\ result[p] = "False"
        /\ service[p] = h[p].service0
        /\ h[p].nWrites = 1
        /\ tokenFile = ToJson(creds[p])

\* On an authenticator without handle the flow gave a credential, it was
\* saved, and building the service failed.
C28_Witness ==
    \E p \in procs :
        /\ BuildFailedAfterLogin(p)
        /\ h[p].flow = "ok"
        /\ h[p].service0 = 0
        /\ service[p] = 0
        /\ tokenFile = ToJson(creds[p])

\* ================================================================ the CLI
\* The commands list, read, send and delete of src/src/gmail_cli/cli.py.  A
\* command authenticates, takes the service and calls the client; authenticate() and
\* the client's remote calls end as the models above show they can.

\* The most message stubs a listing returns.
MaxStubs == 3

Commands == {"list", "read", "send", "delete"}

\* The process ends: sys.exit(status), or the command function returns
\* (status 0), having printed `said` last.
CliExits(status, said, failure) ==
    [cli EXCEPT !.pc = "exited", !.exit = status, !.said = said,
                !.failed = @ \cup failure]

\* The except Exception clause of a command: it prints the error and the
\* command function returns.
CliCaught(failure) == CliExits(0, "error", failure)

\* The user runs a command; given tells that the option the command may ask
\* for (--body of send, --confirm of delete) is on the command line.
CliStart ==
    /\ cli.pc = "idle"
    /\ \E c \in Commands, given \in BOOLEAN :
           cli' = [NoCli EXCEPT !.op = c,
                                !.confirm = (c = "delete" /\ given),
                                !.pc = IF c = "send" /\ ~given THEN "prompt"
                                       ELSE IF c = "delete" /\ ~given THEN "ask"
                                       ELSE "auth"]
    /\ UNCHANGED <<authVars, codec, client>>

\* The mutant of CliConfirmDelete: the answer is not looked at.
CliConfirmDeleteIgnored ==
    /\ cli.pc = "ask"
    /\ \E a \in {"yes", "no"} : cli' = [cli EXCEPT !.pc = "auth", !.answer = a]
    /\ UNCHANGED <<authVars, codec, client>>

\* delete: if not confirm: if not Confirm.ask("Are you sure ..."):
\* print "Operation cancelled."; return
CliConfirmDelete ==
    /\ cli.pc = "ask"
    /\ \/ cli' = [cli EXCEPT !.pc = "auth", !.answer = "yes"]
       \/ cli' = [CliExits(0, "cancelled", {}) EXCEPT !.answer = "no"]
    /\ UNCHANGED <<authVars, codec, client>>

\* send: if not body: body = Prompt.ask("Enter email body")
CliPromptBody ==
    /\ cli.pc = "prompt"
    /\ cli' = [cli EXCEPT !.pc = "auth", !.said = "prompt"]
    /\ UNCHANGED <<authVars, codec, client>>

\* The mutant of CliAuthenticate: a failed authenticate() does not end the
\* command.
CliAuthenticateUnchecked ==
    /\ cli.pc = "auth"
    /\ \E r \in {"True", "False", "raised"} :
        cli' = IF r \in {"True", "False"}
               THEN [cli EXCEPT !.auth = r, !.nAuth = @ + 1, !.pc = "service"]
               ELSE [CliCaught({"auth"}) EXCEPT !.auth = r, !.nAuth = @ + 1]
    /\ UNCHANGED <<authVars, codec, client>>

\* auth = GmailAuthenticator(); if not auth.authenticate(): sys.exit(1)
CliAuthenticate ==
    /\ cli.pc = "auth"
    /\ \E r \in {"True", "False", "raised"} :
        cli' = IF r = "True"
               THEN [cli EXCEPT !.auth = r, !.nAuth = @ + 1, !.pc = "service"]
               ELSE IF r = "False"
                    THEN [CliExits(1, "error", {"auth"}) EXCEPT
                             !.auth = r, !.nAuth = @ + 1]
                    ELSE [CliCaught({"auth"}) EXCEPT
                             !.auth = r, !.nAuth = @ + 1]
    /\ UNCHANGED <<authVars, codec, client>>

\* service = auth.get_service(); client = GmailClient(service)
CliGetService ==
    /\ cli.pc = "service"
    /\ cli' = [cli EXCEPT !.pc = "call"]
    /\ UNCHANGED <<authVars, codec, client>>

\* list: messages = client.list_messages(...); if not messages: return
CliListMessages ==
    /\ cli.pc = "call" /\ cli.op = "list"
    /\ \/ \E n \in 0..MaxStubs :
            cli' = IF n = 0
                   THEN [CliExits(0, "empty", {}) EXCEPT !.nRemote = @ + 1]
                   ELSE [cli EXCEPT !.nRemote = @ + 1, !.stubs = n,
                                    !.pc = "fetch"]
       \/ cli' = [CliExits(0, "empty", {"remote"}) EXCEPT !.nRemote = @ + 1]
    /\ UNCHANGED <<authVars, codec, client>>

\* The row of one stub is done: the loop goes on or the table is printed.
CliNextStub(c) ==
    [c EXCEPT !.stubs = @ - 1, !.pc = IF c.stubs = 1 THEN "show" ELSE "fetch"]

\* list: message_details = client.get_message(msg['id']);
\* if message_details: ...
CliFetch ==
    /\ cli.pc = "fetch" /\ cli.op = "list"
    /\ \/ cli' = [cli EXCEPT !.nRemote = @ + 1, !.pc = "decode"]
       \/ cli' = [CliNextStub(cli) EXCEPT !.nRemote = @ + 1,
                                          !.failed = @ \cup {"remote"}]
    /\ UNCHANGED <<authVars, codec, client>>

\* read: message = client.get_message(message_id);
\* if not message: print "Message not found!"; return
CliGetMessage ==
    /\ cli.pc = "call" /\ cli.op = "read"
    /\ \/ cli' = [cli EXCEPT !.nRemote = @ + 1, !.pc = "decode"]
       \/ cli' = [CliExits(0, "error", {"remote"}) EXCEPT !.nRemote = @ + 1]
    /\ UNCHANGED <<authVars, codec, client>>

\* content = client.get_message_content(...): it returns the record or raises.
CliDecode ==
    /\ cli.pc = "decode"
    /\ \/ cli' = IF cli.op = "list"
                   THEN [CliNextStub(cli) EXCEPT !.rows = @ + 1]
                   ELSE [cli EXCEPT !.pc = "show"]
       \/ cli' = CliCaught({"decode"})
    /\ UNCHANGED <<authVars, codec, client>>

\* list: console.print(table).  read: console.print(panel), and
\* if 'UNREAD' in content['labels'] the user is asked about marking it.
CliShow ==
    /\ cli.pc = "show"
    /\ \/ cli' = CliExits(0, "success", {})
       \/ /\ cli.op = "read"
          /\ cli' = [cli EXCEPT !.pc = "confirm", !.said = "success"]
    /\ UNCHANGED <<authVars, codec, client>>

\* read: if Confirm.ask("Mark this message as read?"):
\* client.mark_as_read(message_id), whose result is not looked at.
CliMarkRead ==
    /\ cli.pc = "confirm"
    /\ \/ cli' = CliExits(0, "success", {})
       \/ cli' = [CliExits(0, "success", {}) EXCEPT !.nRemote = @ + 1]
       \/ cli' = [CliExits(0, "success", {"remote"}) EXCEPT !.nRemote = @ + 1]
    /\ UNCHANGED <<authVars, codec, client>>

\* send: success = client.send_message(...); if not success: sys.exit(1)
CliSend ==
    /\ cli.pc = "call" /\ cli.op = "send"
    /\ \/ cli' = [CliExits(0, "success", {}) EXCEPT !.nRemote = @ + 1]
       \/ cli' = [CliExits(1, "error", {"remote"}) EXCEPT !.nRemote = @ + 1]
    /\ UNCHANGED <<authVars, codec, client>>

\* delete: success = client.delete_message(message_id);
\* if not success: sys.exit(1)
CliDelete ==
    /\ cli.pc = "call" /\ cli.op = "delete"
    /\ \/ cli' = [CliExits(0, "success", {}) EXCEPT !.nRemote = @ + 1]
       \/ cli' = [CliExits(1, "error", {"remote"}) EXCEPT !.nRemote = @ + 1]
    /\ UNCHANGED <<authVars, codec, client>>

\* No authenticator runs: the commands are looked at on their own.
InitCli ==
    /\ procs = {}
    /\ tokenFile = AbsentFile
    /\ InitLocal(0)

NextCli ==
    \/ CliStart
    \/ CliPromptBody
    \/ CliAuthenticate
    \/ CliGetService
    \/ CliListMessages
    \/ CliFetch
    \/ CliGetMessage
    \/ CliDecode
    \/ CliShow
    \/ CliMarkRead
    \/ CliSend
    \/ CliConfirmDelete
    \/ CliDelete

SpecCli == InitCli /\ [][NextCli]_vars

\* C12: whenever a command meets a failure (authenticate() returns failure or
\* raises, a remote operation fails, decoding the message fails), the process
\* ends with a non-zero exit status and does not report success.
C12_FailureExitsNonZero ==
    (cli.pc = "exited" /\ cli.failed # {}) =>
        cli.exit # 0 /\ cli.said # "success"

\* C25: no remote call of the client is issued before authenticate() has
\* returned success in the command; when authenticate() returns failure the
\* command exits with status 1 and has issued no remote call.
C25_AuthenticateFirst ==
    /\ cli.nRemote > 0 => cli.auth = "True"
    /\ cli.auth = "False" =>
          cli.pc = "exited" /\ cli.exit = 1 /\ cli.nRemote = 0

\* delete --confirm ended with status 1 after authenticate() had failed.
C25_Witness ==
    /\ cli.op = "delete"
    /\ cli.confirm
    /\ cli.pc = "exited"
    /\ cli.auth = "False"
    /\ cli.exit = 1
    /\ cli.nRemote = 0

\* C29: when the user declines the confirmation of delete, nothing is
\* authenticated and no remote call is issued; a remote delete is issued only
\* after --confirm or an accepted prompt, and after authenticate() succeeded.
C29_DeclinedIssuesNothing ==
    cli.op = "delete" =>
        /\ cli.answer = "no" =>
              cli.pc = "exited" /\ cli.nAuth = 0 /\ cli.nRemote = 0
        /\ cli.nRemote > 0 =>
              (cli.confirm \/ cli.answer = "yes") /\ cli.auth = "True"

\* The user declined the deletion and the command ended.
C29_Witness ==
    /\ cli.op = "delete"
    /\ ~cli.confirm
    /\ cli.answer = "no"
    /\ cli.pc = "exited"
    /\ cli.said = "cancelled"
    /\ cli.nAuth = 0

\* ============================================================== the codec
\* Decoding a message resource (get_message_content, _extract_body,
\* _extract_attachments) and composing one (send_message, create_draft) in
\* src/src/gmail_cli/gmail_client.py.
\*
\* A text is a sequence of the characters "a" and "b".  A byte string is a
\* sequence of the bytes "61", "62" (the UTF-8 encodings of a and b) and "ff"
\* (a byte no UTF-8 text holds).  Base64 data is a sequence of symbols: "YQ",
\* "Yg" and "_w" are the complete groups that encode the bytes 61, 62 and ff,
\* "!" is a character outside the base64 alphabets and "Y" a single alphabet
\* character that belongs to no complete group.

\* The most parts of a payload to decode, and the most attachment paths of
\* a composition request.
MaxParts == 2
MaxPaths == 2

\* All sequences over S of length at most n.
SeqsUpTo(S, n) == UNION {[1..k -> S] : k \in 0..n}

\* str.encode('utf-8'), as MIMEText applies it to the body.
Utf8Encode(text) ==
    [i \in DOMAIN text |-> IF text[i] = "a" THEN "61" ELSE "62"]

\* bytes.decode('utf-8'): the text, or UnicodeDecodeError.
Utf8Decode(bytes) ==
    IF \E i \in DOMAIN bytes : bytes[i] \notin {"61", "62"}
    THEN [raised |-> TRUE, text |-> <<>>]
    ELSE [raised |-> FALSE,
          text |-> [i \in DOMAIN bytes |-> IF bytes[i] = "61" THEN "a" ELSE "b"]]

\* base64 encoding of a byte string.
B64Encode(bytes) ==
    [i \in DOMAIN bytes |->
        CASE bytes[i] = "61" -> "YQ" [] bytes[i] = "62" -> "Yg" [] OTHER -> "_w"]

\* base64.urlsafe_b64decode(data): characters outside the alphabet are
\* discarded (validate is off), then the rest is decoded group by group; a
\* character left over raises binascii.Error.
B64Decode(data) ==
    LET kept == SelectSeq(data, LAMBDA s : s # "!")
    IN  IF \E i \in DOMAIN kept : kept[i] = "Y"
        THEN [raised |-> TRUE, bytes |-> <<>>]
        ELSE [raised |-> FALSE,
              bytes |-> [i \in DOMAIN kept |->
                  CASE kept[i] = "YQ" -> "61" [] kept[i] = "Yg" -> "62"
                    [] OTHER -> "ff"]]

\* base64.urlsafe_b64decode(data).decode('utf-8')
DecodeData(data) ==
    LET b == B64Decode(data)
    IN  IF b.raised THEN [raised |-> TRUE, text |-> <<>>]
        ELSE Utf8Decode(b.bytes)

\* `if body` / `not body` of a Python value.
Truthy(v) == v.type = "str" /\ v.val # <<>>

\* The loop of _extract_body over payload['parts'], from part i on.  acc holds
\* the body so far, src the data it was decoded from and raised whether a
\* decode raised.  A text/plain part with data sets the body and ends the loop;
\* a text/html part with data sets it while the body is empty, and the loop
\* goes on.
RECURSIVE ExtractParts(_, _, _)
ExtractParts(parts, i, acc) ==
    IF i > Len(parts) THEN acc
    ELSE LET part == parts[i]
             d == DecodeData(part.data)
             set == [acc EXCEPT !.body = Str(d.text), !.src = part.data]
         IN  IF part.mimeType = "text/plain"
             THEN IF part.data # <<>>
                  THEN IF d.raised THEN [acc EXCEPT !.raised = TRUE] ELSE set
                  ELSE ExtractParts(parts, i + 1, acc)
             ELSE IF part.mimeType = "text/html" /\ ~Truthy(acc.body)
             THEN IF part.data # <<>>
                  THEN IF d.raised THEN [acc EXCEPT !.raised = TRUE]
                       ELSE ExtractParts(parts, i + 1, set)
                  ELSE ExtractParts(parts, i + 1, acc)
             ELSE ExtractParts(parts, i + 1, acc)

\* The mutant of ExtractBodyFrom: a text/html root is decoded as well.
ExtractBodyRootHtml(payload, body0) ==
    LET acc == [raised |-> FALSE, body |-> body0, src |-> <<>>]
        d == DecodeData(payload.data)
    IN  IF payload.multi THEN ExtractParts(payload.parts, 1, acc)
        ELSE IF payload.mimeType \in {"text/plain", "text/html"}
                /\ payload.data # <<>>
        THEN IF d.raised THEN [acc EXCEPT !.raised = TRUE]
             ELSE [acc EXCEPT !.body = Str(d.text), !.src = payload.data]
        ELSE acc

\* _extract_body with `body` first set to body0.
ExtractBodyFrom(payload, body0) ==
    LET acc == [raised |-> FALSE, body |-> body0, src |-> <<>>]
        d == DecodeData(payload.data)
    IN  IF payload.multi THEN ExtractParts(payload.parts, 1, acc)
        ELSE IF payload.mimeType = "text/plain" /\ payload.data # <<>>
        THEN IF d.raised THEN [acc EXCEPT !.raised = TRUE]
             ELSE [acc EXCEPT !.body = Str(d.text), !.src = payload.data]
        ELSE acc

\* _extract_body with `body` left unset (None) at its start.
ExtractBodyUnset(payload) == ExtractBodyFrom(payload, None)

\* _extract_body(payload): body = "" at its start.
ExtractBody(payload) == ExtractBodyFrom(payload, Str(<<>>))

\* A part of a payload: its MIME type, the data, size and attachment id of
\* its body (no data: <<>>, no size: NoSize, no id: ""), its file name and,
\* when it is a multipart itself, its own parts.
NoSize == 0 - 1
Part(m, d, f, sz, a, ps) ==
    [mimeType |-> m, data |-> d, filename |-> f, size |-> sz,
     attachmentId |-> a, parts |-> ps]
Leaf(m, d, f) == Part(m, d, f, NoSize, "", <<>>)

\* The entry of a part in the attachment list: part['filename'],
\* part['mimeType'], part['body'].get('size', 0) and
\* part['body'].get('attachmentId').
AttachmentInfo(part) ==
    [filename |-> part.filename,
     mime_type |-> part.mimeType,
     size |-> IF part.size = NoSize THEN 0 ELSE part.size,
     attachment_id |-> IF part.attachmentId = "" THEN None
                       ELSE Str(<<part.attachmentId>>)]

\* The mutant of ExtractAttachments: the parts of a part are looked at too.
ExtractAttachmentsDeep(payload) ==
    IF payload.multi
    THEN LET named == SelectSeq(payload.parts, LAMBDA q : q.filename # "")
             deep == SelectSeq(payload.parts,
                         LAMBDA q : q.parts # <<>> /\ q.parts[1].filename # "")
         IN  [i \in DOMAIN named |-> AttachmentInfo(named[i])]
             \o [i \in DOMAIN deep |-> AttachmentInfo(deep[i].parts[1])]
    ELSE <<>>

\* The mutant of ExtractAttachments: text parts are never attachments.
ExtractAttachmentsNonText(payload) ==
    IF payload.multi
    THEN LET named == SelectSeq(payload.parts,
                          LAMBDA q : q.filename # ""
                                     /\ q.mimeType \notin {"text/plain", "text/html"})
         IN  [i \in DOMAIN named |-> AttachmentInfo(named[i])]
    ELSE <<>>

\* _extract_attachments(payload): one entry per immediate part that has a
\* non-empty filename.
ExtractAttachments(payload) ==
    IF payload.multi
    THEN LET named == SelectSeq(payload.parts, LAMBDA q : q.filename # "")
         IN  [i \in DOMAIN named |-> AttachmentInfo(named[i])]
    ELSE <<>>

\* The mutant of Lower: the name is taken as it is.
LowerAsIs(name) == name

\* h['name'].lower()
Lower(name) ==
    CASE name \in {"Subject", "SUBJECT"} -> "subject"
      [] name \in {"From", "FROM"} -> "from"
      [] name \in {"To", "TO"} -> "to"
      [] name \in {"Date", "DATE"} -> "date"
      [] name = "X-Mailer" -> "x-mailer"
      [] OTHER -> name

\* header_dict.get(key, default): of the headers named key (in any case) the
\* last one, or the default.
HeaderGet(headers, key, default) ==
    LET at == {i \in DOMAIN headers : Lower(headers[i].name) = key}
    IN  IF at = {} THEN default
        ELSE headers[CHOOSE i \in at : \A j \in at : j <= i].value

\* get_message_content(message): the content record, or the exception that
\* _extract_body let through.
Content(payload) ==
    LET b == ExtractBody(payload)
    IN  IF b.raised THEN [NoContent EXCEPT !.kind = "raised"]
        ELSE [kind |-> "content",
              subject |-> HeaderGet(payload.headers, "subject", "No Subject"),
              from |-> HeaderGet(payload.headers, "from", "Unknown"),
              to |-> HeaderGet(payload.headers, "to", "Unknown"),
              date |-> HeaderGet(payload.headers, "date", "Unknown"),
              body |-> b.body,
              attachments |-> ExtractAttachments(payload),
              src |-> b.src]

\* content = client.get_message_content(message)
GetMessageContent ==
    /\ codec.pc = "received"
    /\ codec' = [codec EXCEPT !.pc = "decoded", !.out = Content(codec.payload)]
    /\ UNCHANGED <<authVars, client, cli>>

\* The file system a composition finds: gone.txt does not exist, docs/f.txt
\* and g.bin are files and docs is a directory, which exists and which open()
\* refuses.
Paths == {"gone.txt", "docs/f.txt", "g.bin", "docs"}
PathExists(path) == path # "gone.txt"
IsFile(path) == path \in {"docs/f.txt", "g.bin"}
FileBytes(path) == IF path = "g.bin" THEN <<"ff">> ELSE <<"61">>
Basename(path) == IF path = "docs/f.txt" THEN "f.txt" ELSE path

\* The mutant of Attaches: no test of the path.
AttachesAlways(path) == TRUE

\* if os.path.exists(file_path): the path is attached.
Attaches(path) == PathExists(path)

\* MIMEText(body, 'plain'): a text/plain part, whose content is the encoded
\* body, sent as it is.
MIMEText(body) ==
    [ctype |-> "text/plain", cte |-> "7bit", content |-> Utf8Encode(body),
     filename |-> ""]

\* The mutant of AttachmentPart: the Content-Disposition header is left out.
AttachmentPartUnnamed(path) ==
    [ctype |-> "application/octet-stream", cte |-> "base64",
     content |-> B64Encode(FileBytes(path)), filename |-> ""]

\* MIMEBase('application', 'octet-stream') with the file's bytes as payload,
\* encode_base64 and Content-Disposition: attachment; filename= basename.
AttachmentPart(path) ==
    [ctype |-> "application/octet-stream", cte |-> "base64",
     content |-> B64Encode(FileBytes(path)), filename |-> Basename(path)]

\* The attachment parts of the paths, in the order given.
AttachmentParts(paths) ==
    LET att == SelectSeq(paths, Attaches)
    IN  [i \in DOMAIN att |-> AttachmentPart(att[i])]

\* The composition raises inside the try: open() of an attached path fails.
BuildRaises(req) ==
    \E i \in DOMAIN req.paths : Attaches(req.paths[i]) /\ ~IsFile(req.paths[i])

\* The headers of the message: to, subject, then cc and bcc when given.
BuildHeaders(req) ==
    <<[name |-> "to", value |-> req.to],
      [name |-> "subject", value |-> req.subject]>>
    \o (IF req.cc # "" THEN <<[name |-> "cc", value |-> req.cc]>> ELSE <<>>)
    \o (IF req.bcc # "" THEN <<[name |-> "bcc", value |-> req.bcc]>> ELSE <<>>)

\* What the operation returns on success and on failure.
Success(o) == IF o = "send_message" THEN "True" ELSE "draft-id"
Failure(o) == IF o = "send_message" THEN "False" ELSE "None"

\* send_message / create_draft, up to raw_message: the MIMEMultipart with the
\* body part and the attachment parts; an exception ends the operation with
\* its failure value.
BuildMessage ==
    /\ codec.pc = "start"
    /\ codec' =
         IF BuildRaises(codec.req)
         THEN [codec EXCEPT !.pc = "done", !.ret = Failure(codec.op)]
         ELSE [codec EXCEPT !.pc = "built",
                 !.msg = [built |-> TRUE,
                          headers |-> BuildHeaders(codec.req),
                          parts |-> <<MIMEText(codec.req.body)>>
                                    \o AttachmentParts(codec.req.paths)]]
    /\ UNCHANGED <<authVars, client, cli>>

\* ...send(userId='me', body={'raw': raw_message}).execute(): the remote call
\* succeeds or raises, and the operation returns.
SendRaw ==
    /\ codec.pc = "built"
    /\ \E ok \in BOOLEAN :
         codec' = IF ok
                  THEN [codec EXCEPT !.pc = "sent", !.remote = "ok",
                                     !.ret = Success(codec.op)]
                  ELSE [codec EXCEPT !.pc = "done", !.remote = "failed",
                                     !.ret = Failure(codec.op)]
    /\ UNCHANGED <<authVars, client, cli>>

\* The bytes a MIME part carries, its transfer encoding undone.
TransferDecode(part) ==
    IF part.cte = "base64" THEN B64Decode(part.content).bytes ELSE part.content

\* The payload of the message resource the mail service gives for a stored
\* MIME message: the headers as sent, and per MIME part its type, its bytes
\* as base64url data and its file name.
Parsed(msg) ==
    [multi |-> TRUE, mimeType |-> "multipart/mixed", data |-> <<>>,
     filename |-> "", headers |-> msg.headers,
     parts |-> [i \in DOMAIN msg.parts |->
                  Part(msg.parts[i].ctype,
                       B64Encode(TransferDecode(msg.parts[i])),
                       msg.parts[i].filename,
                       Len(TransferDecode(msg.parts[i])),
                       IF msg.parts[i].filename = "" THEN "" ELSE "att1",
                       <<>>)]]

\* The message sent or saved is fetched again (get_message).
Deliver ==
    /\ codec.pc = "sent"
    /\ codec' = [codec EXCEPT !.pc = "received", !.payload = Parsed(codec.msg)]
    /\ UNCHANGED <<authVars, client, cli>>

\* The body data a part of a received message may carry: none, well-formed
\* data, data with a character outside the alphabet, data with an incomplete
\* group, and data whose bytes are no UTF-8 text.
DataSamples == {<<>>, <<"YQ">>, <<"Yg">>, <<"YQ", "!">>, <<"Y">>, <<"_w">>}

\* The parts nested in a part that is a multipart itself: a text part, or a
\* part with a file name.
NestedSamples ==
    {<<Leaf("text/plain", <<"YQ">>, "")>>,
     <<Part("application/octet-stream", <<>>, "deep.txt", 5, "att2", <<>>)>>}

\* The parts of a received message: text parts with such data, other parts
\* with or without a file name, size and attachment id, a text part with a
\* file name, and multiparts with parts of their own.
PartSamples ==
    {Leaf(m, d, "") : m \in {"text/plain", "text/html"}, d \in DataSamples}
    \cup {Part("application/octet-stream", <<>>, f, b[1], b[2], <<>>) :
            f \in {"", "f.txt"}, b \in {<<NoSize, "">>, <<5, "att1">>}}
    \cup {Part("text/plain", <<"Yg">>, "n.txt", 1, "", <<>>)}
    \cup {Part("multipart/alternative", <<>>, "", NoSize, "", ps) :
            ps \in NestedSamples}

HeaderSamples ==
    {<<>>, <<[name |-> "To", value |-> "ann"],
             [name |-> "Subject", value |-> "hi"]>>}

\* The most headers of the payloads that differ in their headers only.
MaxHeaders == 2

\* Headers under several spellings of their names, with and without a value.
HeaderPool ==
    {[name |-> n, value |-> v] :
        n \in {"subject", "Subject", "SUBJECT", "from", "From", "to", "To",
               "date", "Date", "X-Mailer"},
        v \in {"", "hi"}}

\* The payloads to decode: multipart ones, single-part ones, and ones with
\* all kinds of headers.
PayloadSamples ==
    {[multi |-> TRUE, mimeType |-> "multipart/mixed", data |-> <<>>,
      filename |-> "", headers |-> hs, parts |-> ps] :
        hs \in HeaderSamples, ps \in SeqsUpTo(PartSamples, MaxParts)}
    \cup {[multi |-> FALSE, mimeType |-> m, data |-> d, filename |-> "",
           headers |-> hs, parts |-> <<>>] :
        m \in {"text/plain", "text/html"}, d \in DataSamples,
        hs \in HeaderSamples}
    \cup {[multi |-> FALSE, mimeType |-> "application/pdf", data |-> <<"YQ">>,
           filename |-> f, headers |-> <<>>, parts |-> <<>>] :
        f \in {"", "doc.pdf"}}
    \cup {[multi |-> FALSE, mimeType |-> "text/plain", data |-> <<"YQ">>,
           filename |-> "", headers |-> hs, parts |-> <<>>] :
        hs \in SeqsUpTo(HeaderPool, MaxHeaders)}

\* The composition requests.
RequestSamples ==
    {[to |-> t, subject |-> s, cc |-> c, bcc |-> b, body |-> x, paths |-> ps] :
        t \in {"ann", "bob"}, s \in {"", "hi"}, c \in {"", "cat"},
        b \in {"", "dan"}, x \in {<<>>, <<"a">>, <<"a", "b">>},
        ps \in SeqsUpTo(Paths, MaxPaths)}

\* A message resource was fetched and is to be decoded, or a message is to be
\* composed; no authenticator, client operation or command runs.
InitCodec ==
    /\ procs = {}
    /\ tokenFile = AbsentFile
    /\ InitAuth(0)
    /\ client = NoClient
    /\ cli = NoCli
    /\ \/ \E pl \in PayloadSamples :
            codec = [NoCodec EXCEPT !.op = "get_message_content",
                                    !.pc = "received", !.payload = pl]
       \/ \E o \in {"send_message", "create_draft"}, r \in RequestSamples :
            codec = [NoCodec EXCEPT !.op = o, !.pc = "start", !.req = r]

NextCodec ==
    \/ BuildMessage
    \/ SendRaw
    \/ Deliver
    \/ GetMessageContent

SpecCodec == InitCodec /\ [][NextCodec]_vars

\* ------------------------------------------------------- claims on the codec
\* get_message_content has returned a content record.
Decoded == codec.pc = "decoded" /\ codec.out.kind = "content"

\* The first text/plain part among the immediate parts of a payload that has
\* one.
HasPlain(payload) ==
    payload.multi
    /\ \E i \in DOMAIN payload.parts : payload.parts[i].mimeType = "text/plain"
FirstPlain(payload) ==
    LET at == {i \in DOMAIN payload.parts :
                  payload.parts[i].mimeType = "text/plain"}
    IN  payload.parts[CHOOSE i \in at : \A j \in at : i <= j]

\* C13: for a payload whose immediate parts include a text/plain part, the
\* decoded body is the content of the first text/plain part, the empty string
\* when that part carries no data, whatever text/html parts surround it.
C13_PlainTextWins ==
    (Decoded /\ HasPlain(codec.payload)) =>
        codec.out.body = Str(DecodeData(FirstPlain(codec.payload).data).text)

\* A message was composed by send_message or create_draft.
Composing == codec.op \in {"send_message", "create_draft"}

\* The attachment paths of the request that exist on disk, in order.
Existing == SelectSeq(codec.req.paths, PathExists)

C15_EnvelopeShape ==
    Composing =>
        /\ codec.msg.built =>
              /\ Len(codec.msg.parts) = 1 + Len(Existing)
              /\ codec.msg.parts[1].ctype = "text/plain"
              /\ codec.msg.parts[1].content = Utf8Encode(codec.req.body)
              /\ \A j \in DOMAIN Existing :
                    /\ codec.msg.parts[j + 1].ctype = "application/octet-stream"
                    /\ codec.msg.parts[j + 1].filename = Basename(Existing[j])
                    /\ codec.msg.parts[j + 1].content
                           = B64Encode(FileBytes(Existing[j]))
        /\ codec.ret = Failure(codec.op) =>
              \/ codec.remote = "failed"
              \/ \E i \in DOMAIN codec.req.paths :
                    PathExists(codec.req.paths[i]) /\ ~IsFile(codec.req.paths[i])

\* send_message with a missing and an existing path reported success.
C15_Witness ==
    /\ codec.op = "send_message"
    /\ codec.pc = "sent"
    /\ codec.ret = "True"
    /\ codec.req.paths = <<"gone.txt", "g.bin">>
    /\ Len(codec.msg.parts) = 2

\* The data is valid base64url, and its bytes are valid UTF-8.
ValidBase64Url(data) == \A i \in DOMAIN data : data[i] \in {"YQ", "Yg", "_w"}
ValidUtf8(data) == \A i \in DOMAIN data : data[i] # "_w"

\* C19: when the data of the text part whose content becomes the body is not
\* valid base64url, or not valid UTF-8 once decoded, get_message_content
\* raises and returns no content record.
C19_DecodeFailureReported ==
    Decoded => ValidBase64Url(codec.out.src) /\ ValidUtf8(codec.out.src)

\* Every text part of the payload carries well-formed data or none; no text
\* part carries data.
TextData(payload) ==
    IF payload.multi
    THEN {payload.parts[i].data : i \in
            {j \in DOMAIN payload.parts :
                payload.parts[j].mimeType \in {"text/plain", "text/html"}}}
    ELSE IF payload.mimeType \in {"text/plain", "text/html"}
         THEN {payload.data} ELSE {}
WellFormed(payload) ==
    \A d \in TextData(payload) : ValidBase64Url(d) /\ ValidUtf8(d)
NoTextData(payload) == \A d \in TextData(payload) : d = <<>>

\* C20: for a well-formed payload get_message_content returns a content
\* record whose body is a string, never None; when no text part carries data
\* the body is the empty string.
C20_BodyIsString ==
    codec.pc = "decoded" =>
        /\ WellFormed(codec.payload) =>
              codec.out.kind = "content" /\ codec.out.body.type = "str"
        /\ NoTextData(codec.payload) =>
              codec.out.kind = "content" /\ codec.out.body = Str(<<>>)

\* A multipart payload whose text/plain part carries no data was decoded.
C20_Witness ==
    /\ Decoded
    /\ codec.op = "get_message_content"
    /\ HasPlain(codec.payload)
    /\ NoTextData(codec.payload)
    /\ codec.out.body = Str(<<>>)

\* The spellings of a header name in the payloads.
Spellings(key) ==
    CASE key = "subject" -> {"subject", "Subject", "SUBJECT"}
      [] key = "from" -> {"from", "From"}
      [] key = "to" -> {"to", "To"}
      [] OTHER -> {"date", "Date"}

\* C21: the decoded subject is the value of the Subject header, "No Subject"
\* when the payload has none; from, to and date are the values of their
\* headers, "Unknown" when absent; names match in any case.
C21_HeaderDefaults ==
    Decoded =>
        \A key \in {"subject", "from", "to", "date"} :
            LET hs == codec.payload.headers
                vals == {hs[i].value : i \in
                            {j \in DOMAIN hs : hs[j].name \in Spellings(key)}}
            IN  IF vals = {}
                THEN codec.out[key] =
                        (IF key = "subject" THEN "No Subject" ELSE "Unknown")
                ELSE codec.out[key] \in vals

\* A payload with a SUBJECT header and no From header was decoded.
C21_Witness ==
    /\ Decoded
    /\ codec.payload.headers = <<[name |-> "SUBJECT", value |-> "hi"],
                                 [name |-> "Date", value |-> ""]>>
    /\ codec.out.subject = "hi"
    /\ codec.out.from = "Unknown"
    /\ codec.out.date = ""

\* The immediate parts of the decoded payload that have a file name, in order.
NamedParts == SelectSeq(codec.payload.parts, LAMBDA q : q.filename # "")

\* C22: the attachment list holds exactly the immediate parts with a
\* non-empty file name, whatever their MIME type, in their order, each with
\* its file name, MIME type, size (0 when absent) and attachment id; a part
\* without a file name is not in it.
C22_AttachmentsByFilename ==
    (Decoded /\ codec.payload.multi) =>
        /\ Len(codec.out.attachments) = Len(NamedParts)
        /\ \A k \in DOMAIN NamedParts :
              LET a == codec.out.attachments[k]
                  q == NamedParts[k]
              IN  /\ a.filename = q.filename
                  /\ a.mime_type = q.mimeType
                  /\ a.size = (IF q.size = NoSize THEN 0 ELSE q.size)
                  /\ a.attachment_id = (IF q.attachmentId = "" THEN None
                                        ELSE Str(<<q.attachmentId>>))

\* A payload with a named text part and a named binary part without size
\* was decoded.
C22_Witness ==
    /\ Decoded
    /\ codec.payload.parts =
          <<Part("text/plain", <<"Yg">>, "n.txt", 1, "", <<>>),
            Part("application/octet-stream", <<>>, "f.txt", NoSize, "", <<>>)>>
    /\ Len(codec.out.attachments) = 2
    /\ codec.out.attachments[1].mime_type = "text/plain"
    /\ codec.out.attachments[2].size = 0

\* The payload without the parts nested in its parts.
Shallow(payload) ==
    [payload EXCEPT !.parts =
        [i \in DOMAIN payload.parts |-> [payload.parts[i] EXCEPT !.parts = <<>>]]]

\* C26: the decoded body and attachment list depend on the root and its
\* immediate parts only: a text part or a named part nested in a part never
\* becomes the body or an attachment.
C26_ImmediateChildrenOnly ==
    (Decoded /\ codec.payload.multi) =>
        LET ps == codec.payload.parts
        IN  /\ \A k \in DOMAIN codec.out.attachments :
                  \E i \in DOMAIN ps :
                      ps[i].filename = codec.out.attachments[k].filename
            /\ codec.out.body # Str(<<>>) =>
                  \E i \in DOMAIN ps :
                      /\ ps[i].mimeType \in {"text/plain", "text/html"}
                      /\ ps[i].data = codec.out.src
            /\ codec.out = Content(Shallow(codec.payload))

\* A payload whose only text part and only named part are nested in its
\* parts was decoded: the body is empty and there is no attachment.
C26_Witness ==
    /\ Decoded
    /\ Len(codec.payload.parts) = 2
    /\ codec.payload.parts[1].parts = <<Leaf("text/plain", <<"YQ">>, "")>>
    /\ codec.payload.parts[2].parts # <<>>
    /\ codec.payload.parts[2].parts[1].filename = "deep.txt"
    /\ codec.out.body = Str(<<>>)
    /\ codec.out.attachments = <<>>

\* C30: for a payload with no parts the decoded body is the decoded data of
\* the root exactly when the root is text/plain and the empty string for any
\* other root type, text/html included; the attachment list is empty.
C30_SingleBody ==
    (codec.pc = "decoded" /\ codec.op = "get_message_content"
        /\ ~codec.payload.multi) =>
        /\ codec.payload.mimeType # "text/plain" => codec.out.kind = "content"
        /\ codec.out.kind = "content" =>
              /\ codec.out.body =
                    (IF codec.payload.mimeType = "text/plain"
                     THEN Str(DecodeData(codec.payload.data).text)
                     ELSE Str(<<>>))
              /\ codec.out.attachments = <<>>

\* A text/html payload with data and no parts was decoded to an empty body.
C30_Witness ==
    /\ Decoded
    /\ ~codec.payload.multi
    /\ codec.payload.mimeType = "text/html"
    /\ codec.payload.data = <<"YQ">>
    /\ codec.out.body = Str(<<>>)

\* ============================================================= the client
\* The remote operations of GmailClient in src/src/gmail_cli/gmail_client.py.
\* Each one builds its request, issues the remote call with .execute() and
\* returns, all inside one try whose except Exception clause prints the
\* error and returns the operation's failure value.

\* The most items a listing returns.
MaxItems == 2

\* The operations that return a list, a resource, an id, or True / False.
ListOps == {"list_messages", "search_messages", "get_labels", "list_drafts",
            "list_threads", "get_filters", "get_forwarding_addresses",
            "get_send_as_aliases", "get_delegates", "get_history"}
GetOps == {"get_message", "get_draft", "get_thread", "get_vacation_settings"}
IdOps == {"create_draft", "create_filter", "create_forwarding_address",
          "create_label"}
BoolOps == {"send_message", "mark_as_read", "mark_as_unread", "delete_message",
            "update_draft", "delete_draft", "send_draft", "delete_thread",
            "modify_thread", "delete_filter", "create_send_as_alias",
            "update_vacation_settings", "create_delegate", "delete_delegate",
            "download_attachment", "update_label", "delete_label"}
ClientOps == ListOps \cup GetOps \cup IdOps \cup BoolOps

\* The operations that read attachment files while they build the request.
Composers == {"send_message", "create_draft", "update_draft"}

\* Python values: a list of items, a resource, True / False.
PyList(items) == [type |-> "list", val |-> items]
PyDict == [type |-> "dict", val |-> <<"resource">>]
PyBool(b) == [type |-> "bool", val |-> <<IF b THEN "True" ELSE "False">>]

\* The mutant of SuccessValue: a listing is cut to its first item.
SuccessValueCut(o, items) ==
    CASE o \in ListOps -> PyList(IF items = <<>> THEN <<>> ELSE <<items[1]>>)
      [] o \in GetOps -> PyDict
      [] o \in IdOps -> Str(<<"i", "d">>)
      [] OTHER -> PyBool(TRUE)

\* What operation o returns when the remote call gave these items:
\* results.get(key, []), the resource, its id, or True.
SuccessValue(o, items) ==
    CASE o \in ListOps -> PyList(items)
      [] o \in GetOps -> PyDict
      [] o \in IdOps -> Str(<<"i", "d">>)
      [] OTHER -> PyBool(TRUE)

\* What the except clause of operation o returns.
FailureValue(o) ==
    CASE o \in ListOps -> PyList(<<>>)
      [] o \in BoolOps -> PyBool(FALSE)
      [] OTHER -> None

\* The message stubs a listing may hold.
Stubs == {"m1", "m2"}

\* The arguments of an invocation: query, max_results and label_ids of
\* list_messages, query and max_results of search_messages, filename (none:
\* "") and attachment_id of download_attachment.
Arguments(o) ==
    CASE o = "list_messages" ->
            {[NoArgs EXCEPT !.query = q, !.max_results = n, !.label_ids = l] :
                q \in {"", "is:unread"}, n \in {1, 10},
                l \in {"none", "INBOX"}}
      [] o = "search_messages" ->
            {[NoArgs EXCEPT !.query = q, !.max_results = n] :
                q \in {"", "is:unread"}, n \in {1, 10}}
      [] o = "download_attachment" ->
            {[NoArgs EXCEPT !.filename = f, !.attachment_id = "att1"] :
                f \in {"", "out.bin"}}
      [] OTHER -> {NoArgs}

\* The request of a listing: q=query, maxResults=max_results,
\* labelIds=label_ids; search_messages calls list_messages with its query
\* and max_results and no label_ids.
RemoteRequest(o, a) ==
    [q |-> a.query, maxResults |-> a.max_results,
     labelIds |-> IF o = "search_messages" THEN "none" ELSE a.label_ids]

\* What the remote call of operation o may return: a listing with or without
\* its key, attachment data with or without its key, or a resource.
Responses(o) ==
    CASE o \in ListOps ->
            {[NoResponse EXCEPT !.present = TRUE, !.items = x] :
                x \in SeqsUpTo(Stubs, MaxItems)} \cup {NoResponse}
      [] o = "download_attachment" ->
            {[NoResponse EXCEPT !.present = TRUE, !.data = d] :
                d \in DataSamples} \cup {NoResponse}
      [] OTHER -> {[NoResponse EXCEPT !.present = TRUE]}

\* The except Exception clause of the operation.
ClientCaught == [client EXCEPT !.pc = "returned", !.ret = FailureValue(client.op)]

\* A caller invokes an operation.
ClientCall ==
    /\ client.pc = "idle"
    /\ \E o \in ClientOps : \E a \in Arguments(o) :
          client' = [client EXCEPT !.op = o, !.pc = "try", !.args = a]
    /\ UNCHANGED <<authVars, codec, cli>>

\* The operation builds its request; reading an attachment may raise.
ClientPrepare ==
    /\ client.pc = "try"
    /\ \/ client' = [client EXCEPT !.pc = "request", !.built = TRUE,
                        !.request = RemoteRequest(client.op, client.args)]
       \/ client.op \in Composers /\ client' = ClientCaught
    /\ UNCHANGED <<authVars, codec, cli>>

\* The mutant of ClientExecute with no try around the remote call.
ClientExecuteUncaught ==
    /\ client.pc = "request"
    /\ \/ \E r \in Responses(client.op) :
            client' = [client EXCEPT !.pc = "response", !.remote = "ok",
                                     !.nRemote = @ + 1, !.response = r]
       \/ client' = [client EXCEPT !.pc = "returned", !.remote = "failed",
                                   !.nRemote = @ + 1, !.raised = TRUE]
    /\ UNCHANGED <<authVars, codec, cli>>

\* The mutant of ClientExecute that issues a failed call once more.
ClientExecuteRetrying ==
    /\ client.pc = "request"
    /\ \/ \E r \in Responses(client.op) :
            client' = [client EXCEPT !.pc = "response", !.remote = "ok",
                                     !.nRemote = @ + 1, !.response = r]
       \/ client' = IF client.nRemote = 0
                    THEN [client EXCEPT !.nRemote = @ + 1]
                    ELSE [ClientCaught EXCEPT !.remote = "failed",
                                              !.nRemote = @ + 1]
    /\ UNCHANGED <<authVars, codec, cli>>

\* ....execute(): the remote call returns a response, or raises and
\* the except clause returns the failure value.
ClientExecute ==
    /\ client.pc = "request"
    /\ \/ \E r \in Responses(client.op) :
            client' = [client EXCEPT !.pc = "response", !.remote = "ok",
                                     !.nRemote = @ + 1, !.response = r]
       \/ client' = [ClientCaught EXCEPT !.remote = "failed", !.nRemote = @ + 1]
    /\ UNCHANGED <<authVars, codec, cli>>

\* The file download_attachment writes: filename, or attachment_<id>.
DownloadTarget(a) ==
    IF a.filename = "" THEN "attachment_att1" ELSE a.filename

\* The mutant of Download: the file is opened before the data is decoded.
DownloadOpensFirst(c, outcome) ==
    LET d == B64Decode(c.response.data)
        caught == [c EXCEPT !.pc = "returned", !.ret = FailureValue(c.op)]
        target == DownloadTarget(c.args)
        opened == [caught EXCEPT !.files[target] = [exists |-> TRUE,
                                                     bytes |-> <<>>]]
    IN  IF ~c.response.present \/ outcome = "open fails" THEN caught
        ELSE IF d.raised \/ outcome = "write fails" THEN opened
        ELSE [c EXCEPT !.pc = "returned", !.ret = PyBool(TRUE),
                       !.files[target] = [exists |-> TRUE, bytes |-> d.bytes]]

\* The rest of the try of download_attachment:
\* base64.urlsafe_b64decode(attachment['data']), the default filename,
\* open(filename, 'wb') and f.write(file_data); a missing key, the decoding,
\* open() and write() may raise.
Download(c, outcome) ==
    LET d == B64Decode(c.response.data)
        caught == [c EXCEPT !.pc = "returned", !.ret = FailureValue(c.op)]
        target == DownloadTarget(c.args)
    IN  IF ~c.response.present \/ d.raised \/ outcome = "open fails"
        THEN caught
        ELSE IF outcome = "write fails"
        THEN [caught EXCEPT !.files[target] = [exists |-> TRUE, bytes |-> <<>>]]
        ELSE [c EXCEPT !.pc = "returned", !.ret = PyBool(TRUE),
                       !.files[target] = [exists |-> TRUE, bytes |-> d.bytes]]

\* The rest of the try: the operation returns its value; download_attachment
\* first decodes the data and writes the file.
ClientReturn ==
    /\ client.pc = "response"
    /\ IF client.op = "download_attachment"
       THEN \E outcome \in {"ok", "open fails", "write fails"} :
                client' = Download(client, outcome)
       ELSE client' = [client EXCEPT !.pc = "returned",
                          !.ret = SuccessValue(client.op, client.response.items)]
    /\ UNCHANGED <<authVars, codec, cli>>

\* The local files before an invocation: out.bin exists or not.
FileSystems ==
    {[f \in LocalFiles |-> NoFile],
     [f \in LocalFiles |-> IF f = "out.bin"
                           THEN [exists |-> TRUE, bytes |-> <<"62", "62">>]
                           ELSE NoFile]}

\* A client whose operations are called; no authenticator or command runs.
InitClient ==
    /\ procs = {}
    /\ tokenFile = AbsentFile
    /\ InitAuth(0)
    /\ codec = NoCodec
    /\ cli = NoCli
    /\ \E fs \in FileSystems :
          client = [NoClient EXCEPT !.files = fs, !.files0 = fs]

NextClient ==
    \/ ClientCall
    \/ ClientPrepare
    \/ ClientExecute
    \/ ClientReturn

SpecClient == InitClient /\ [][NextClient]_vars

\* ------------------------------------------------------ claims on the client
\* The values operation o returns when its remote call succeeds.
SuccessValues(o) == {SuccessValue(o, r.items) : r \in Responses(o)}

\* C16: the value an operation returns when its remote call fails differs
\* from every value it returns when the remote call succeeds, a successful
\* call with an empty result included.
C16_ExplicitOutcome ==
    (client.pc = "returned" /\ client.remote = "failed") =>
        client.ret \notin SuccessValues(client.op)

\* C17: when the remote call of an operation raises, the operation returns
\* its failure value (False, None or an empty list) and no exception leaves
\* the client.
C17_NeverThrows ==
    (client.pc = "returned" /\ client.remote = "failed") =>
        /\ ~client.raised
        /\ client.ret \in {PyBool(FALSE), None, PyList(<<>>)}
        /\ client.ret = FailureValue(client.op)

\* The remote call of delete_message raised and delete_message returned False.
C17_Witness ==
    /\ client.op = "delete_message"
    /\ client.pc = "returned"
    /\ client.remote = "failed"
    /\ client.ret = PyBool(FALSE)

\* C18: an invocation issues at most one remote call, exactly one when its
\* request could be built, and a failed call is not issued again.
C18_OneRemoteCall ==
    /\ client.nRemote <= 1
    /\ client.pc = "returned" =>
          client.nRemote = (IF client.built THEN 1 ELSE 0)
    /\ client.remote = "failed" => client.pc = "returned"

\* send_message built its message, its one remote call failed, and it
\* returned.
C18_Witness ==
    /\ client.op = "send_message"
    /\ client.pc = "returned"
    /\ client.built
    /\ client.remote = "failed"
    /\ client.nRemote = 1

\* C23: list_messages returns exactly the stubs the remote call returned, in
\* their order, and an empty list when the response holds no messages;
\* search_messages(query, n) asks what list_messages asks with that query and
\* no label filter, and returns the same.
C23_ListingPassedThrough ==
    (client.op \in {"list_messages", "search_messages"}
        /\ client.pc = "returned" /\ client.remote = "ok") =>
        /\ client.ret.type = "list"
        /\ client.ret.val =
              (IF client.response.present THEN client.response.items ELSE <<>>)
        /\ client.request.q = client.args.query
        /\ client.request.maxResults = client.args.max_results
        /\ client.request.labelIds =
              (IF client.op = "search_messages" THEN "none"
               ELSE client.args.label_ids)

\* search_messages returned the two stubs of the response in their order.
C23_Witness ==
    /\ client.op = "search_messages"
    /\ client.pc = "returned"
    /\ client.args.query = "is:unread"
    /\ client.response.items = <<"m2", "m1">>
    /\ client.ret = PyList(<<"m2", "m1">>)

\* The data decodes: it holds no incomplete group.
Decodable(data) == \A i \in DOMAIN data : data[i] # "Y"

\* C24: when download_attachment returns True the file named by filename,
\* or attachment_<id> when none is given, holds the decoded bytes and no
\* other file has changed; when the remote call or the decoding fails it
\* returns False and no local file is created or changed.
C24_AttachmentDownload ==
    (client.op = "download_attachment" /\ client.pc = "returned") =>
        LET target == IF client.args.filename = ""
                      THEN "attachment_att1" ELSE client.args.filename
        IN  /\ client.ret = PyBool(TRUE) =>
                  /\ client.remote = "ok"
                  /\ client.files[target] =
                        [exists |-> TRUE,
                         bytes |-> B64Decode(client.response.data).bytes]
                  /\ \A f \in LocalFiles \ {target} :
                        client.files[f] = client.files0[f]
            /\ (client.remote = "failed"
                \/ (client.remote = "ok" /\ client.response.present
                    /\ ~Decodable(client.response.data))) =>
                  /\ client.ret = PyBool(FALSE)
                  /\ client.files = client.files0

\* A download without filename wrote the decoded bytes to attachment_att1.
C24_Witness ==
    /\ client.op = "download_attachment"
    /\ client.pc = "returned"
    /\ client.args.filename = ""
    /\ client.ret = PyBool(TRUE)
    /\ client.files["attachment_att1"] = [exists |-> TRUE, bytes |-> <<"61">>]

====
